---- MODULE Spec2Model ----
(***************************************************************************)
(* The per-frame simulation of GameScene (src/components/GameScene.tsx):   *)
(* the first useFrame callback, which polls the audio clock and the hand   *)
(* snapshot, spawns the notes that are due, evaluates every active note    *)
(* (miss check, collision gates, grading) and reports onNoteHit,           *)
(* onNoteMiss and onSongEnd to the host.                                   *)
(*                                                                         *)
(* Units.  Lengths are in tenths of a world unit (1.2 is 12), velocities   *)
(* in tenths of a unit per second, the clock in ticks of 1/10 s, so that   *)
(* every comparison of the code is between integers and is decided         *)
(* exactly.                       Square roots are avoided by comparing     *)
(* squares; the division of lines 110 and 114 by cross-multiplying.        *)
(*                                                                         *)
(* ../constants and ../types are not among the sources.  The geometry      *)
(* constants (PLAYER_Z, SPAWN_Z, MISS_Z, NOTE_SPEED, the lane and layer    *)
(* tables, the direction vectors) are therefore given values here; the     *)
(* code of GameScene.tsx is translated as it stands.                       *)
(***************************************************************************)
EXTENDS Integers, Sequences, FiniteSets, TLC

VARIABLES
    gameStatus,        \* prop gameStatus (line 29)
    audioAttached,     \* audioRef.current is not null (line 30)
    notesState,        \* notesState (line 38): the chart's note objects
    currentTime,       \* currentTime (line 39): the clock seen by the last running frame
    activeNotesRef,    \* activeNotesRef.current (line 42): references (chart indices)
    nextNoteIndexRef,  \* nextNoteIndexRef.current (line 43)
    hitEvents,         \* history: per note, the accuracies passed to onNoteHit, in order
    missEvents,        \* history: per note, the number of onNoteMiss calls
    songEnds,          \* history: the number of onSongEnd calls
    spawnLog,          \* history: the references pushed by line 115, in order
    lastFrame,         \* history: what the most recent step was
    shakeIntensity,    \* shakeIntensity.current (line 44), in hundredths
    probe              \* the swing last put to the loop body on its own (GradeSpec)

vars == <<gameStatus, audioAttached, notesState, currentTime, activeNotesRef, nextNoteIndexRef,
          hitEvents, missEvents, songEnds, spawnLog, lastFrame, shakeIntensity, probe>>

---------------------------------------------------------------------------
\* Bounds of the model.

\* The audio clock takes the values 0 .. MaxClock (ticks).
MaxClock == 9

\* onSongEnd calls recorded before the model stops taking end-of-track frames.
MaxSongEnds == 2

---------------------------------------------------------------------------
\* Constants of ../constants (values chosen for the model, see the header).

PLAYER_Z == 0

SPAWN_Z == -30

MISS_Z == 20

\* Tenths of a unit per tick.
NOTE_SPEED == 10

LANE_X_POSITIONS == <<-12, -4, 4, 12>>

LAYER_Y_POSITIONS == <<8, 16, 24>>

\* CutDirection (../types) and DIRECTION_VECTORS (../constants).
CutDirections == {"UP", "DOWN", "LEFT", "RIGHT", "ANY"}

DIRECTION_VECTORS ==
    [d \in CutDirections \ {"ANY"} |->
        CASE d = "UP" -> <<0, 1, 0>>
          [] d = "DOWN" -> <<0, -1, 0>>
          [] d = "LEFT" -> <<-1, 0, 0>>
          [] d = "RIGHT" -> <<1, 0, 0>>]

\* GameStatus (../types); the code only tells PLAYING from the rest.
GameStatuses == {"IDLE", "PLAYING", "PAUSED"}

\* HitAccuracy (../types).
HitAccuracies == {"BAD", "GOOD", "PERFECT"}

\* undefined, for the optional fields accuracy and hitTime of a note.
Undefined == "undefined"

NoTime == 0 - 1

\* null, for the position of a hand that is not tracked.
NoPosition == <<>>

---------------------------------------------------------------------------
\* Thresholds written in GameScene.tsx, in model units.

\* line 143: currentZ > PLAYER_Z - 2.0
WINDOW_AHEAD == 20

\* line 143: currentZ < PLAYER_Z + 1.5
WINDOW_BEHIND == 15

\* line 156: distanceTo(notePos) < 1.2
HIT_RADIUS == 12

\* line 162: speed < 0.5
MIN_SPEED == 5

\* line 177: angleScore > 0.1 (hundredths)
MIN_ANGLE == 10

\* line 187: distanceToPerfect < 0.5
PERFECT_DIST == 5

\* line 187: angleScore > 0.5 (hundredths)
PERFECT_ANGLE == 50

\* line 189: distanceToPerfect < 1.0
GOOD_DIST == 10

\* line 189: angleScore > 0.2 (hundredths)
GOOD_ANGLE == 20

---------------------------------------------------------------------------
\* Arithmetic helpers.

Abs(x) == IF x < 0 THEN -x ELSE x

Dot(a, b) == a[1] * b[1] + a[2] * b[2] + a[3] * b[3]

\* Vector3.distanceTo, squared.
DistanceSq(a, b) ==
    (a[1] - b[1]) * (a[1] - b[1]) + (a[2] - b[2]) * (a[2] - b[2])
        + (a[3] - b[3]) * (a[3] - b[3])

\* Vector3.length, squared.
LengthSq(v) == Dot(v, v)

---------------------------------------------------------------------------
\* The chart, the hand snapshots and the note objects.

\* A NoteData object as the chart supplies it: no runtime field set.
MkNote(id, time, lineIndex, lineLayer, type, cutDirection) ==
    [id |-> id, time |-> time, lineIndex |-> lineIndex, lineLayer |-> lineLayer,
     type |-> type, cutDirection |-> cutDirection,
     hit |-> FALSE, missed |-> FALSE, hitTime |-> NoTime, accuracy |-> Undefined]

\* The note times of the charts of the model (ticks): time-ordered, time-ordered
\* with two notes at the same time, and not time-ordered.
ChartTimes == {<<3, 4, 6>>, <<4, 4, 5>>, <<6, 3, 4>>}

\* The charts handed to the scene as the prop chart (line 32): a left-hand note
\* cut upwards, a right-hand note cut in any direction, a left-hand note cut
\* upwards, in lanes 1 and 2 of layer 1 (0-based).
Charts ==
    {<<MkNote(1, ts[1], 1, 1, "left", "UP"),
       MkNote(2, ts[2], 2, 1, "right", "ANY"),
       MkNote(3, ts[3], 1, 1, "left", "UP")>> : ts \in ChartTimes}

\* One hand of a HandPositions snapshot: position (or null) and velocity.
Hand(pos, vel) == [pos |-> pos, vel |-> vel]

Untracked == Hand(NoPosition, <<0, 0, 0>>)

\* At the place where a lane-1, layer-1 note crosses the player plane.
FastUp == Hand(<<-4, 16, 0>>, <<0, 20, 0>>)          \* speed 2.0, aligned with UP

TooSlowUp == Hand(<<-4, 16, 0>>, <<0, 3, 0>>)        \* speed 0.3

MinSpeedUp == Hand(<<-4, 16, 0>>, <<0, 5, 0>>)       \* speed exactly 0.5

Shallow == Hand(<<-4, 16, 0>>, <<60, 10, 0>>)        \* 0.164 aligned with UP

Sideways == Hand(<<-4, 16, 0>>, <<100, 10, 0>>)      \* 0.0995 aligned with UP

\* At the place where a lane-2, layer-1 note crosses the player plane.
Slanted == Hand(<<4, 16, 0>>, <<30, 10, 0>>)         \* 0.316 aligned with UP

\* 3.0 behind the player plane in lane 1, where a note is past MISS_Z.
Behind == Hand(<<-4, 16, 30>>, <<0, 20, 0>>)

HandOptions ==
    {Untracked, FastUp, TooSlowUp, MinSpeedUp, Shallow, Sideways, Slanted, Behind}

Snapshot(l, r) ==
    [left |-> l.pos, leftVelocity |-> l.vel, right |-> r.pos, rightVelocity |-> r.vel]

\* handPositionsRef.current as line 123 reads it: no hand, the left hand alone,
\* the right hand alone, or both hands at the same place.
HandSnapshots ==
    {Snapshot(l, Untracked) : l \in HandOptions}
        \cup {Snapshot(Untracked, r) : r \in {FastUp, TooSlowUp, Slanted}}
        \cup {Snapshot(FastUp, FastUp), Snapshot(TooSlowUp, FastUp),
              Snapshot(FastUp, TooSlowUp)}

---------------------------------------------------------------------------
\* The pure computations of the frame callback.

\* Mutant of SpawnDue: strict comparison, a note due exactly now has to wait.
SpawnDueStrict(note, time) ==
    (note.time - time) * NOTE_SPEED < Abs(SPAWN_Z - PLAYER_Z)

\* line 114: nextNote.time - spawnAheadTime <= time, with
\* spawnAheadTime = |SPAWN_Z - PLAYER_Z| / NOTE_SPEED (line 110), multiplied out.
SpawnDue(note, time) ==
    (note.time - time) * NOTE_SPEED <= Abs(SPAWN_Z - PLAYER_Z)

\* lines 130-131: the projected depth of the note at clock time.
CurrentZ(note, time) == PLAYER_Z - ((note.time - time) * NOTE_SPEED)

\* line 127
Terminal(note) == note.hit \/ note.missed

\* Mutant of PastMiss: the depth axis is taken the other way round.
PastMissAhead(currentZ) == currentZ < 0 - MISS_Z

\* Mutant of PastMiss: the threshold itself already counts as passed.
PastMissInclusive(currentZ) == currentZ >= MISS_Z

\* line 134
PastMiss(currentZ) == currentZ > MISS_Z

\* line 143
InCollisionWindow(currentZ) ==
    currentZ > PLAYER_Z - WINDOW_AHEAD /\ currentZ < PLAYER_Z + WINDOW_BEHIND

\* lines 144-145: the hand matching the note's type.
HandPos(note, hands) == IF note.type = "left" THEN hands.left ELSE hands.right

\* Mutant of HandVel: the velocities of the two hands are taken the wrong way round.
HandVelSwapped(note, hands) ==
    IF note.type = "left" THEN hands.rightVelocity ELSE hands.leftVelocity

HandVel(note, hands) ==
    IF note.type = "left" THEN hands.leftVelocity ELSE hands.rightVelocity

\* lines 148-152
NotePos(note, currentZ) ==
    <<LANE_X_POSITIONS[note.lineIndex + 1], LAYER_Y_POSITIONS[note.lineLayer + 1], currentZ>>

\* line 156
WithinReach(handPos, notePos) == DistanceSq(handPos, notePos) < HIT_RADIUS * HIT_RADIUS

\* line 162: speed < 0.5
TooSlow(handVel) == LengthSq(handVel) < MIN_SPEED * MIN_SPEED

\* lines 167-174: the angle score, kept as the fraction num / sqrt(den2):
\* the dot product of the normalised velocity with the required direction, or 1.
AngleScore(note, handVel) ==
    IF note.cutDirection # "ANY"
    THEN [num |-> Dot(handVel, DIRECTION_VECTORS[note.cutDirection]),
          den2 |-> LengthSq(handVel)]
    ELSE [num |-> 1, den2 |-> 1]

\* angleScore > pct / 100
ScoreAbove(angleScore, pct) ==
    /\ angleScore.num > 0
    /\ angleScore.num * angleScore.num * 10000 > pct * pct * angleScore.den2

\* Mutant of Accuracy: the two conditions are tested in the other order, and a
\* hit that meets the GOOD condition is never looked at for PERFECT.
AccuracyGoodFirst(currentZ, angleScore) ==
    LET distanceToPerfect == Abs(currentZ - PLAYER_Z)
    IN  IF distanceToPerfect < GOOD_DIST /\ ScoreAbove(angleScore, GOOD_ANGLE)
        THEN "GOOD"
        ELSE IF distanceToPerfect < PERFECT_DIST /\ ScoreAbove(angleScore, PERFECT_ANGLE)
             THEN "PERFECT"
             ELSE "BAD"

\* Mutant of Accuracy: Math.abs is missing, a note still ahead of the player
\* plane has a negative distance to it.
AccuracyNoAbs(currentZ, angleScore) ==
    LET distanceToPerfect == currentZ - PLAYER_Z
    IN  IF distanceToPerfect < PERFECT_DIST /\ ScoreAbove(angleScore, PERFECT_ANGLE)
        THEN "PERFECT"
        ELSE IF distanceToPerfect < GOOD_DIST /\ ScoreAbove(angleScore, GOOD_ANGLE)
             THEN "GOOD"
             ELSE "BAD"

\* lines 180-193: the grade of a hit at depth currentZ with the given angle score.
Accuracy(currentZ, angleScore) ==
    LET distanceToPerfect == Abs(currentZ - PLAYER_Z)
    IN  IF distanceToPerfect < PERFECT_DIST /\ ScoreAbove(angleScore, PERFECT_ANGLE)
        THEN "PERFECT"
        ELSE IF distanceToPerfect < GOOD_DIST /\ ScoreAbove(angleScore, GOOD_ANGLE)
             THEN "GOOD"
             ELSE "BAD"

\* Mutant of Splice: splice(i) without the count removes the rest of the array.
SpliceToEnd(seq, i) == SubSeq(seq, 1, i - 1)

\* Array.prototype.splice(i, 1), 1-based.
Splice(seq, i) == SubSeq(seq, 1, i - 1) \o SubSeq(seq, i + 1, Len(seq))

---------------------------------------------------------------------------
\* The steps of the frame callback.  The scene's mutable state is passed as
\* a record sc = [notes, active, next, hitEvents, missEvents, log, visits];
\* visits lists the references the collision loop of this frame has taken up.

\* The useFrame delta, in ticks: the frames are rendered a tick apart.
FrameDeltas == {1}

\* lines 82-95 for a mounted camera: while the shake is on it decays,
\* lerp(shake, 0, 10 * delta) = shake * (1 - 10 * delta), and is put to 0 once
\* below 0.01.  The camera position is not part of the model.
CameraShake(shake, delta) ==
    IF shake > 0
    THEN LET decayed == shake - shake * delta
         IN  IF decayed < 1 THEN 0 ELSE decayed
    ELSE shake

\* lines 56-58: the shake that handleHit sets for a grade.
ShakeFor(accuracy) ==
    IF accuracy = "PERFECT" THEN 40
    ELSE IF accuracy = "GOOD" THEN 20
    ELSE 10

\* lines 115-116: push the next note and advance the cursor.
SpawnNote(sc) ==
    [sc EXCEPT !.active = Append(@, sc.next + 1),
               !.next = @ + 1,
               !.log = Append(@, sc.next + 1)]

\* lines 112-120: the spawn loop, from the persistent cursor.
RECURSIVE SpawnLoop(_, _)
SpawnLoop(sc, time) ==
    IF sc.next < Len(sc.notes) /\ SpawnDue(sc.notes[sc.next + 1], time)
    THEN SpawnLoop(SpawnNote(sc), time)
    ELSE sc

\* Mutant of Spawn: the cursor is not kept between frames (a plain variable
\* instead of a ref), so every frame scans from the start of the chart.
SpawnFromStart(sc, time) == SpawnLoop([sc EXCEPT !.next = 0], time)

Spawn(sc, time) == SpawnLoop(sc, time)

\* Mutant of MissNote: the miss is reported, the note is neither marked nor removed.
MissNoteReportOnly(sc, i) ==
    [sc EXCEPT !.missEvents[sc.active[i]] = @ + 1]

\* Mutant of MissNote: the loop index is used as the chart index
\* (notesState[i].missed = true instead of note.missed = true).
MissNoteWrongIndex(sc, i) ==
    [sc EXCEPT !.notes[i].missed = TRUE,
               !.missEvents[sc.active[i]] = @ + 1,
               !.active = Splice(@, i)]

\* lines 135-137: mark the i-th active note missed, report it, remove it.
MissNote(sc, i) ==
    LET ref == sc.active[i]
    IN  [sc EXCEPT !.notes[ref].missed = TRUE,
                   !.missEvents[ref] = @ + 1,
                   !.active = Splice(@, i)]

\* Mutant of HitNote: line 196 is missing, hitTime stays undefined.
HitNoteUntimed(sc, i, time, accuracy) ==
    LET ref == sc.active[i]
    IN  [sc EXCEPT !.notes[ref].hit = TRUE,
                   !.notes[ref].accuracy = accuracy,
                   !.shake = ShakeFor(accuracy),
                   !.hitEvents[ref] = Append(@, accuracy),
                   !.active = Splice(@, i)]

\* lines 195-200 (and handleHit, lines 54-61): mark the i-th active note hit,
\* record hitTime and accuracy, report it, remove it.
HitNote(sc, i, time, accuracy) ==
    LET ref == sc.active[i]
    IN  [sc EXCEPT !.notes[ref].hit = TRUE,
                   !.notes[ref].hitTime = time,
                   !.notes[ref].accuracy = accuracy,
                   !.shake = ShakeFor(accuracy),
                   !.hitEvents[ref] = Append(@, accuracy),
                   !.active = Splice(@, i)]

\* Mutant of Swung: the direction gate still asks for the angle score of a
\* PERFECT hit (the threshold was not lowered to 0.1).
SwungSteep(note, currentZ, hands) ==
    /\ InCollisionWindow(currentZ)
    /\ HandPos(note, hands) # NoPosition
    /\ WithinReach(HandPos(note, hands), NotePos(note, currentZ))
    /\ ~TooSlow(HandVel(note, hands))
    /\ ScoreAbove(AngleScore(note, HandVel(note, hands)), PERFECT_ANGLE)

\* lines 143-177: every gate of the collision check holds for the note.
Swung(note, currentZ, hands) ==
    /\ InCollisionWindow(currentZ)
    /\ HandPos(note, hands) # NoPosition
    /\ WithinReach(HandPos(note, hands), NotePos(note, currentZ))
    /\ ~TooSlow(HandVel(note, hands))
    /\ ScoreAbove(AngleScore(note, HandVel(note, hands)), MIN_ANGLE)

\* lines 134-193: what the loop body (EvaluateNote below) decides for an
\* unresolved note at depth currentZ: a miss, a hit with its grade, or nothing.
Outcome(note, currentZ, hands) ==
    IF PastMiss(currentZ) THEN "missed"
    ELSE IF Swung(note, currentZ, hands)
         THEN Accuracy(currentZ, AngleScore(note, HandVel(note, hands)))
         ELSE "none"

\* Mutant of EvaluateNote: a bad cut is a miss: a swing within reach and fast
\* enough whose angle score is not above the threshold discards the note.
EvaluateNoteBadCut(sc, i, time, hands) ==
    LET note == sc.notes[sc.active[i]]
        currentZ == CurrentZ(note, time)
        seen == [sc EXCEPT !.visits = Append(@, sc.active[i])]
    IN  IF Terminal(note) THEN seen
        ELSE IF PastMiss(currentZ) THEN MissNote(seen, i)
        ELSE IF Swung(note, currentZ, hands)
             THEN HitNote(seen, i, time,
                          Accuracy(currentZ, AngleScore(note, HandVel(note, hands))))
        ELSE IF /\ InCollisionWindow(currentZ)
                /\ HandPos(note, hands) # NoPosition
                /\ WithinReach(HandPos(note, hands), NotePos(note, currentZ))
                /\ ~TooSlow(HandVel(note, hands))
             THEN MissNote(seen, i)
             ELSE seen

\* lines 126-204: the body of the collision loop for the i-th active note.
EvaluateNote(sc, i, time, hands) ==
    LET note == sc.notes[sc.active[i]]
        currentZ == CurrentZ(note, time)
        seen == [sc EXCEPT !.visits = Append(@, sc.active[i])]
    IN  IF Terminal(note) THEN seen
        ELSE IF PastMiss(currentZ) THEN MissNote(seen, i)
        ELSE IF Swung(note, currentZ, hands)
             THEN HitNote(seen, i, time,
                          Accuracy(currentZ, AngleScore(note, HandVel(note, hands))))
             ELSE seen

\* lines 125-205: for (i = length - 1; i >= 0; i--), 1-based from i down to 1.
RECURSIVE CollideFrom(_, _, _, _)
CollideFrom(sc, i, time, hands) ==
    IF i < 1 THEN sc
    ELSE CollideFrom(EvaluateNote(sc, i, time, hands), i - 1, time, hands)

\* Mutant of Collide: the loop runs forward, for (i = 0; i < length; i++), so
\* that a removal moves the next note under the index just visited.
RECURSIVE CollideUpFrom(_, _, _, _)
CollideUpFrom(sc, i, time, hands) ==
    IF i > Len(sc.active) THEN sc
    ELSE CollideUpFrom(EvaluateNote(sc, i, time, hands), i + 1, time, hands)

CollideForward(sc, time, hands) == CollideUpFrom(sc, 1, time, hands)

Collide(sc, time, hands) == CollideFrom(sc, Len(sc.active), time, hands)

Scene ==
    [notes |-> notesState, active |-> activeNotesRef, next |-> nextNoteIndexRef,
     hitEvents |-> hitEvents, missEvents |-> missEvents, log |-> spawnLog,
     shake |-> shakeIntensity, visits |-> <<>>]

\* Mutant of PlayFrame: the camera-shake block ends with a return, and the
\* simulation stands still while the camera shakes.
PlayFrameStill(sc, time, delta, hands) ==
    IF sc.shake > 0
    THEN [sc EXCEPT !.shake = CameraShake(@, delta)]
    ELSE Collide(Spawn(sc, time), time, hands)

\* lines 81-205 of a frame that goes past lines 97 and 103: the camera shake,
\* the spawn loop, the collision loop.
PlayFrame(sc, time, delta, hands) ==
    Collide(Spawn([sc EXCEPT !.shake = CameraShake(@, delta)], time), time, hands)

\* No swing has been put to the loop body on its own.
NoProbe == [outcome |-> "none"]

---------------------------------------------------------------------------
\* Actions.

Init ==
    /\ gameStatus = "IDLE"
    /\ audioAttached = FALSE
    /\ notesState \in Charts
    /\ currentTime = 0
    /\ activeNotesRef = <<>>
    /\ nextNoteIndexRef = 0
    /\ hitEvents = [i \in DOMAIN notesState |-> <<>>]
    /\ missEvents = [i \in DOMAIN notesState |-> 0]
    /\ songEnds = 0
    /\ spawnLog = <<>>
    /\ lastFrame = "none"
    /\ shakeIntensity = 0
    /\ probe = NoProbe

\* The host re-renders the scene with another gameStatus.
SetStatus(s) ==
    /\ s # gameStatus
    /\ gameStatus' = s
    /\ lastFrame' = "host"
    /\ UNCHANGED <<audioAttached, notesState, currentTime, activeNotesRef,
                   nextNoteIndexRef, hitEvents, missEvents, songEnds, spawnLog,
                   shakeIntensity, probe>>

\* The host's audio element is mounted: audioRef.current becomes the element.
AttachAudio ==
    /\ ~audioAttached
    /\ audioAttached' = TRUE
    /\ lastFrame' = "host"
    /\ UNCHANGED <<gameStatus, notesState, currentTime, activeNotesRef,
                   nextNoteIndexRef, hitEvents, missEvents, songEnds, spawnLog,
                   shakeIntensity, probe>>

\* Mutant of Suspended: only the status before the first start suspends the frame.
SuspendedOnlyIdle == gameStatus = "IDLE" \/ ~audioAttached

\* line 97: the frame returns before touching the simulation.
Suspended == gameStatus # "PLAYING" \/ ~audioAttached

\* lines 81-97: the camera shake runs, then the frame returns.
FrameSuspended ==
    /\ Suspended
    /\ \E delta \in FrameDeltas : shakeIntensity' = CameraShake(shakeIntensity, delta)
    /\ lastFrame' = "suspended"
    /\ UNCHANGED <<gameStatus, audioAttached, notesState, currentTime, activeNotesRef,
                   nextNoteIndexRef, hitEvents, missEvents, songEnds, spawnLog, probe>>

\* Mutant of FrameSongEnd: line 105's return is missing, and the frame that has
\* reported the end of the song goes on to spawn and collide.
FrameSongEndNoReturn(time) ==
    /\ ~Suspended
    /\ songEnds < MaxSongEnds
    /\ \E hands \in HandSnapshots, delta \in FrameDeltas :
           \E sc \in {PlayFrame(Scene, time, delta, hands)} :
               /\ notesState' = sc.notes
               /\ activeNotesRef' = sc.active
               /\ nextNoteIndexRef' = sc.next
               /\ hitEvents' = sc.hitEvents
               /\ missEvents' = sc.missEvents
               /\ spawnLog' = sc.log
               /\ shakeIntensity' = sc.shake
    /\ currentTime' = time
    /\ songEnds' = songEnds + 1
    /\ lastFrame' = "ended"
    /\ UNCHANGED <<gameStatus, audioAttached, probe>>

\* lines 100-106: the audio has ended: report it and return.
FrameSongEnd(time) ==
    /\ ~Suspended
    /\ songEnds < MaxSongEnds
    /\ \E delta \in FrameDeltas : shakeIntensity' = CameraShake(shakeIntensity, delta)
    /\ currentTime' = time
    /\ songEnds' = songEnds + 1
    /\ lastFrame' = "ended"
    /\ UNCHANGED <<gameStatus, audioAttached, notesState, activeNotesRef,
                   nextNoteIndexRef, hitEvents, missEvents, spawnLog, probe>>

\* lines 81-205: the camera shake, then spawn, then collide.
FramePlay(time, hands) ==
    /\ ~Suspended
    /\ \E delta \in FrameDeltas :
           \E sc \in {PlayFrame(Scene, time, delta, hands)} :
               /\ notesState' = sc.notes
               /\ activeNotesRef' = sc.active
               /\ nextNoteIndexRef' = sc.next
               /\ hitEvents' = sc.hitEvents
               /\ missEvents' = sc.missEvents
               /\ spawnLog' = sc.log
               /\ shakeIntensity' = sc.shake
    /\ currentTime' = time
    /\ lastFrame' = "played"
    /\ UNCHANGED <<gameStatus, audioAttached, songEnds, probe>>

\* One call of the useFrame callback (lines 63-206), with the audio element's
\* currentTime and ended and the hand snapshot as it finds them.
Frame ==
    \/ FrameSuspended
    \/ \E time \in 0 .. MaxClock : FrameSongEnd(time)
    \/ \E time \in 0 .. MaxClock, hands \in HandSnapshots : FramePlay(time, hands)

Next ==
    \/ \E s \in GameStatuses : SetStatus(s)
    \/ AttachAudio
    \/ Frame

Spec == Init /\ [][Next]_vars

\* The scene under a host that starts the game and never leaves PLAYING, and an
\* audio element that never ends and whose clock never goes back: every frame
\* sees a clock at least as large as the frame before.
StartPlaying == SetStatus("PLAYING")

FrameOnTime ==
    \E time \in currentTime .. MaxClock, hands \in HandSnapshots : FramePlay(time, hands)

\* A frame that sees the clock advanced.
ClockAdvances ==
    \E time \in (currentTime + 1) .. MaxClock, hands \in HandSnapshots :
        FramePlay(time, hands)

LiveNext ==
    \/ StartPlaying
    \/ AttachAudio
    \/ FrameSuspended
    \/ FrameOnTime

\* The scene under a host that starts the game and never leaves PLAYING and an
\* audio element that never ends, the clock going forth and back at will.
PlayNext ==
    \/ StartPlaying
    \/ AttachAudio
    \/ FrameSuspended
    \/ \E time \in 0 .. MaxClock, hands \in HandSnapshots : FramePlay(time, hands)

PlaySpec == Init /\ [][PlayNext]_vars

\* The loop body's decision on its own, at depths a tenth of a unit apart, from
\* just ahead of the collision window to just past the miss threshold, with the
\* hand snapshots of the frames and a diagonal swing (0.707 aligned with UP).
ProbeDepths == (PLAYER_Z - WINDOW_AHEAD - 1) .. (MISS_Z + 1)

Diagonal == Hand(<<-4, 16, 0>>, <<10, 10, 0>>)

ProbeHands == HandSnapshots \cup {Snapshot(Diagonal, Untracked)}

\* One swing is put to the loop body in a behaviour.
ProbeSwing(i, currentZ, hands) ==
    /\ probe = NoProbe
    /\ probe' = [note |-> i, currentZ |-> currentZ, hands |-> hands,
                 outcome |-> Outcome(notesState[i], currentZ, hands)]
    /\ UNCHANGED <<gameStatus, audioAttached, notesState, currentTime, activeNotesRef,
                   nextNoteIndexRef, hitEvents, missEvents, songEnds, spawnLog,
                   lastFrame, shakeIntensity>>

GradeNext ==
    \E i \in DOMAIN notesState, currentZ \in ProbeDepths, hands \in ProbeHands :
        ProbeSwing(i, currentZ, hands)

GradeSpec == Init /\ [][GradeNext]_vars

\* The frame scheduler keeps calling the callback (useFrame) and the playing
\* audio keeps advancing, so frames that see a later clock keep happening.
LiveSpec == Init /\ [][LiveNext]_vars /\ WF_vars(ClockAdvances)

---------------------------------------------------------------------------
\* Vocabulary of the properties.

Notes == DOMAIN notesState

\* The projected depth of note i at the clock of the last running frame.
DepthNow(i) == PLAYER_Z - ((notesState[i].time - currentTime) * NOTE_SPEED)

\* Note i is due for activation at clock t: time - spawnAheadTime <= t.
DueAt(i, t) ==
    notesState[i].time * NOTE_SPEED - Abs(SPAWN_Z - PLAYER_Z) <= t * NOTE_SPEED

\* The chart is ordered by time.
ChartOrdered ==
    \A i, j \in Notes : i < j => notesState[i].time <= notesState[j].time

\* The chart indices of the charts of the model.
NoteIds == {1, 2, 3}

IsHit(i) == notesState[i].hit

IsMissed(i) == notesState[i].missed

InActiveSet(i) == \E k \in DOMAIN activeNotesRef : activeNotesRef[k] = i

---------------------------------------------------------------------------
\* C1: onSongEnd fires exactly once: every frame that runs while playing with
\* the audio ended leaves exactly one onSongEnd emitted in total, the first
\* such frame emitting it and no later one emitting it again.
C1_SongEndOnce == [][lastFrame' = "ended" => songEnds' = 1]_vars

\* C2: once onSongEnd has been emitted, no later frame emits onNoteHit or
\* onNoteMiss for any note.
C2_NoEventsAfterSongEnd ==
    [][songEnds > 0 => (hitEvents' = hitEvents /\ missEvents' = missEvents)]_vars

\* C3: every note receives at most one event in total: at most one onNoteHit
\* or one onNoteMiss, never both and never one of them twice.
C3_AtMostOneEvent ==
    \A i \in Notes : Len(hitEvents[i]) + missEvents[i] <= 1

\* C3 witness: one note has been reported hit, another reported missed, and a
\* frame has since run with the clock back before the missed note's time.
C3_Witness ==
    \E i, j \in Notes :
        /\ Len(hitEvents[i]) = 1
        /\ missEvents[j] = 1
        /\ lastFrame = "played"
        /\ currentTime < notesState[j].time

\* C4: terminal exclusivity: no note is ever both hit and missed.
C4_TerminalExclusive ==
    \A i \in Notes : ~(notesState[i].hit /\ notesState[i].missed)

\* C4 witness: after a running frame, one note is hit and another is missed.
C4_Witness ==
    /\ lastFrame = "played"
    /\ \E i, j \in Notes : IsHit(i) /\ ~IsMissed(i) /\ IsMissed(j) /\ ~IsHit(j)

\* C5: monotonic activation: the notes pushed into the active set so far are
\* the chart indices 1, 2, ..., cursor in this order (so none is pushed before
\* its predecessor and none twice), and the cursor never decreases.
C5_MonotonicActivation ==
    /\ [](spawnLog = [k \in 1 .. nextNoteIndexRef |-> k])
    /\ [][nextNoteIndexRef' >= nextNoteIndexRef]_vars

\* C5 witness: every note has been activated and a frame has since run with the
\* clock back before the first note was due.
C5_Witness ==
    /\ nextNoteIndexRef = Len(notesState)
    /\ lastFrame = "played"
    /\ \A i \in Notes : ~DueAt(i, currentTime)

\* C6: idempotent suspension: a frame that runs while the status is not
\* playing (any step but the host's re-render or mounting of the audio) changes no note field, neither the active set nor the cursor, and
\* emits no event.
C6_IdempotentSuspension ==
    [][(gameStatus # "PLAYING" /\ lastFrame' # "host") =>
          UNCHANGED <<notesState, activeNotesRef, nextNoteIndexRef,
                      hitEvents, missEvents, songEnds, spawnLog>>]_vars

\* C6 witness: a frame has run while paused, after a hit, with two notes in
\* flight.
C6_Witness ==
    /\ gameStatus = "PAUSED"
    /\ lastFrame = "suspended"
    /\ Len(activeNotesRef) >= 2
    /\ \E i \in Notes : IsHit(i)

\* C7: no early miss: whenever a frame marks a note missed or emits onNoteMiss
\* for it, the note's projected depth at that frame's clock is strictly
\* greater than MISS_Z.
C7_NoEarlyMiss ==
    [][\A i \in Notes :
          ((notesState'[i].missed /\ ~notesState[i].missed)
              \/ missEvents'[i] # missEvents[i])
          => PLAYER_Z - ((notesState[i].time - currentTime') * NOTE_SPEED) > MISS_Z]_vars

\* C7 witness: a frame has missed one note while another active note, exactly
\* at the miss threshold, stays unresolved.
C7_Witness ==
    /\ lastFrame = "played"
    /\ \E i, j \in Notes :
          /\ IsMissed(i) /\ missEvents[i] = 1 /\ DepthNow(i) = MISS_Z + NOTE_SPEED
          /\ InActiveSet(j) /\ ~IsMissed(j) /\ ~IsHit(j) /\ DepthNow(j) = MISS_Z

\* C8: for a time-ordered chart, after every frame that runs the scheduler at
\* clock t every note due at t is activated, and a note is only ever activated
\* by a frame at whose clock it is due.
C8_ActivatedWhenDue ==
    /\ []((ChartOrdered /\ lastFrame = "played") =>
            \A i \in Notes : DueAt(i, currentTime) => i <= nextNoteIndexRef)
    /\ [][ChartOrdered =>
            \A i \in (nextNoteIndexRef + 1) .. nextNoteIndexRef' :
                DueAt(i, currentTime')]_vars

\* C8 witness: in a time-ordered chart the first note was activated by a frame
\* at exactly its time minus the spawn-ahead time, the second is not due yet.
C8_Witness ==
    /\ ChartOrdered
    /\ lastFrame = "played"
    /\ nextNoteIndexRef = 1
    /\ notesState[1].time * NOTE_SPEED - Abs(SPAWN_Z - PLAYER_Z) = currentTime * NOTE_SPEED
    /\ ~DueAt(2, currentTime)

\* C9: hitTime and accuracy are defined exactly for the notes that are hit, and
\* once a note is hit or missed none of its fields changes again.
C9_TerminalImmutable ==
    /\ [](\A i \in Notes :
            /\ (notesState[i].hitTime # NoTime) <=> notesState[i].hit
            /\ (notesState[i].accuracy # Undefined) <=> notesState[i].hit)
    /\ [][\A i \in Notes :
            (notesState[i].hit \/ notesState[i].missed) => notesState'[i] = notesState[i]]_vars

\* C9 witness: a note was hit at an earlier clock than the last frame's, with
\* its grade recorded, and another note is missed with neither field set.
C9_Witness ==
    /\ lastFrame = "played"
    /\ \E i, j \in Notes :
          /\ IsHit(i) /\ notesState[i].hitTime # NoTime
          /\ notesState[i].hitTime < currentTime
          /\ notesState[i].accuracy = "PERFECT"
          /\ IsMissed(j) /\ notesState[j].hitTime = NoTime
          /\ notesState[j].accuracy = Undefined

\* C10: eventual miss: after every frame that runs the collision pass, every
\* activated note that is not hit and whose projected depth at that frame's
\* clock is beyond MISS_Z is marked missed, has exactly one onNoteMiss and is
\* out of the active set; and while the game keeps playing under an advancing
\* clock, every activated note eventually is hit or missed.
C10_EventualMiss ==
    /\ [](lastFrame = "played" =>
            \A i \in Notes :
                (i <= nextNoteIndexRef /\ ~notesState[i].hit
                    /\ PLAYER_Z - ((notesState[i].time - currentTime) * NOTE_SPEED) > MISS_Z)
                => (notesState[i].missed /\ missEvents[i] = 1 /\ ~InActiveSet(i)))
    /\ \A i \in NoteIds :
            (i <= nextNoteIndexRef) ~> (notesState[i].hit \/ notesState[i].missed)

\* C10 witness: under the advancing clock a frame has just resolved the last
\* note: every note is terminal, one of them hit and two of them missed.
C10_Witness ==
    /\ lastFrame = "played"
    /\ activeNotesRef = <<>>
    /\ nextNoteIndexRef = Len(notesState)
    /\ \E i \in Notes : IsHit(i)
    /\ Cardinality({j \in Notes : IsMissed(j) /\ missEvents[j] = 1}) = 2

---------------------------------------------------------------------------
\* C11.  A frame that finds the audio ended while the game is playing reports
\* onSongEnd and does nothing else: no note is activated, hit or missed, the
\* ActiveSet and the spawn cursor stay as they were, and no onNoteHit or
\* onNoteMiss is emitted, whatever depth the unresolved notes have reached.
C11_SongEndOnly ==
    [][lastFrame' = "ended" =>
           /\ songEnds' = songEnds + 1
           /\ notesState' = notesState
           /\ activeNotesRef' = activeNotesRef
           /\ nextNoteIndexRef' = nextNoteIndexRef
           /\ hitEvents' = hitEvents
           /\ missEvents' = missEvents
           /\ spawnLog' = spawnLog]_vars

\* The song has ended over three unresolved notes in the ActiveSet, one of them
\* past the miss depth at the clock the frame saw, and nothing was reported.
C11_Witness ==
    /\ lastFrame = "ended"
    /\ Len(activeNotesRef) = 3
    /\ \A i \in NoteIds : ~IsHit(i) /\ ~IsMissed(i) /\ hitEvents[i] = <<>> /\ missEvents[i] = 0
    /\ \E i \in NoteIds : DepthNow(i) > MISS_Z

---------------------------------------------------------------------------
\* C12.  The grade never improves as the timing error grows: at the angle score
\* of a graded swing, every depth with a timing error no larger is graded at
\* least as well (BAD < GOOD < PERFECT); and a swing graded PERFECT also meets
\* the GOOD condition (timing error below 1.0 and angle score above 0.2).
C12_GradeMonotone ==
    probe.outcome \in HitAccuracies =>
        LET note == notesState[probe.note]
            angleScore == AngleScore(note, HandVel(note, probe.hands))
            timingError == Abs(probe.currentZ - PLAYER_Z)
            rank(accuracy) ==
                IF accuracy = "PERFECT" THEN 3 ELSE IF accuracy = "GOOD" THEN 2 ELSE 1
        IN  /\ \A z \in ProbeDepths :
                   Abs(z - PLAYER_Z) <= timingError
                       => rank(Accuracy(z, angleScore)) >= rank(probe.outcome)
            /\ probe.outcome = "PERFECT"
                   => timingError < 10 /\ ScoreAbove(angleScore, 20)

\* A swing straight along the required direction, 0.7 ahead of the player
\* plane, has been graded GOOD.
C12_Witness ==
    /\ probe.outcome = "GOOD"
    /\ probe.currentZ = PLAYER_Z - 7
    /\ probe.hands = Snapshot(FastUp, Untracked)

---------------------------------------------------------------------------
\* Vocabulary of the claims about one frame.  A frame that plays is a function
\* of the scene and of what it reads: the clock, the delta, the hand snapshot.

\* The projected depth of note i at clock t.
DepthAt(i, t) == PLAYER_Z - ((notesState[i].time - t) * NOTE_SPEED)

\* The gates as the claims word them, for note i at clock t: the collision band
\* (PLAYER_Z - 2.0, PLAYER_Z + 1.5), the hand of the note's type tracked, at
\* a distance below 1.2, its squared speed, an angle score above 0.1 or a note
\* that accepts any direction.
SwingGates(i, t, hands) ==
    LET note == notesState[i]
        pos == IF note.type = "left" THEN hands.left ELSE hands.right
        vel == IF note.type = "left" THEN hands.leftVelocity ELSE hands.rightVelocity
        at == <<LANE_X_POSITIONS[note.lineIndex + 1],
                LAYER_Y_POSITIONS[note.lineLayer + 1], DepthAt(i, t)>>
        along == IF note.cutDirection = "ANY" THEN 0
                 ELSE Dot(vel, DIRECTION_VECTORS[note.cutDirection])
    IN  [band |-> DepthAt(i, t) > PLAYER_Z - 20 /\ DepthAt(i, t) < PLAYER_Z + 15,
         tracked |-> pos # NoPosition,
         reach |-> pos # NoPosition /\ DistanceSq(pos, at) < 144,
         speedSq |-> LengthSq(vel),
         direction |-> \/ note.cutDirection = "ANY"
                       \/ along > 0 /\ along * along * 100 > LengthSq(vel)]

\* The notes in the ActiveSet once the spawn step of a frame at clock t has run.
ActiveAfterSpawn(t) ==
    LET active == Spawn(Scene, t).active
    IN  {active[k] : k \in DOMAIN active}

Unresolved(i) == ~IsHit(i) /\ ~IsMissed(i)

\* C13.  Hit completeness: in every frame that plays, at whatever clock t and
\* with whatever hands, an unresolved active note that is not past MISS_Z, is
\* inside the collision band, has its matching hand tracked within the hit
\* radius, swung faster than 0.5 with an angle score above 0.1 (or accepts any
\* direction), comes out hit with hitTime = t, with exactly one more onNoteHit,
\* carrying the grade stored in note.accuracy, and out of the ActiveSet.
C13_HitComplete ==
    ~Suspended =>
        \A time \in 0 .. MaxClock, delta \in FrameDeltas, hands \in HandSnapshots :
            \A after \in {PlayFrame(Scene, time, delta, hands)} :
                \A i \in ActiveAfterSpawn(time) :
                    LET gates == SwingGates(i, time, hands)
                    IN  (/\ Unresolved(i)
                         /\ DepthAt(i, time) <= MISS_Z
                         /\ gates.band /\ gates.tracked /\ gates.reach
                         /\ gates.speedSq > 25
                         /\ gates.direction)
                        => /\ after.notes[i].hit /\ ~after.notes[i].missed
                           /\ after.notes[i].hitTime = time
                           /\ after.notes[i].accuracy \in HitAccuracies
                           /\ after.hitEvents[i] = Append(hitEvents[i], after.notes[i].accuracy)
                           /\ after.missEvents[i] = missEvents[i]
                           /\ \A k \in DOMAIN after.active : after.active[k] # i

\* A note has been hit at its own time, graded PERFECT, reported once and
\* taken out of the ActiveSet.
C13_Witness ==
    /\ lastFrame = "played"
    /\ \E i \in NoteIds :
          /\ IsHit(i) /\ ~InActiveSet(i)
          /\ notesState[i].hitTime = notesState[i].time
          /\ currentTime = notesState[i].time
          /\ notesState[i].accuracy = "PERFECT"
          /\ hitEvents[i] = <<"PERFECT">>

\* The gates held for every note that a frame at clock time with the given
\* hands turns from unresolved to hit; slowest is the squared speed the
\* matching hand must have had.
HitsSound(time, delta, hands, slowest) ==
    \A after \in {PlayFrame(Scene, time, delta, hands)} :
        \A i \in NoteIds :
            (after.notes[i].hit /\ ~IsHit(i))
                => LET gates == SwingGates(i, time, hands)
                   IN  /\ DepthAt(i, time) <= MISS_Z
                       /\ gates.band /\ gates.tracked /\ gates.reach
                       /\ gates.speedSq \in slowest
                       /\ gates.direction

\* C14 as stated.  Hit soundness: whenever a frame marks a note hit, the note
\* was not past MISS_Z and inside the collision band, the hand of the note's
\* type was tracked at a distance below 1.2, that hand's speed exceeded 0.5,
\* and the angle score was above 0.1 (or the note accepts any direction).
C14_HitSoundExceeding ==
    ~Suspended =>
        \A time \in 0 .. MaxClock, delta \in FrameDeltas, hands \in HandSnapshots :
            HitsSound(time, delta, hands, {sq \in Nat : sq > 25})

\* C14, amended.  Hit soundness with the speed gate as line 162 has it:
\* whenever a frame marks a note hit, the note was not past MISS_Z and inside
\* the collision band, the hand of the note's type was tracked at a distance
\* below 1.2, that hand's speed was at least 0.5 (a speed of exactly 0.5 is
\* a swing), and the angle score was above 0.1 (or the note accepts any
\* direction).
C14_HitSound ==
    ~Suspended =>
        \A time \in 0 .. MaxClock, delta \in FrameDeltas, hands \in HandSnapshots :
            HitsSound(time, delta, hands, {sq \in Nat : sq >= 25})

\* A frame has hit a note 1.0 behind the player plane, inside the band, and
\* graded it BAD; the hit set the shake of a BAD grade.
C14_Witness ==
    /\ lastFrame = "played"
    /\ \E i \in NoteIds :
          /\ IsHit(i)
          /\ notesState[i].hitTime = currentTime
          /\ DepthNow(i) = PLAYER_Z + NOTE_SPEED
          /\ notesState[i].accuracy = "BAD"
    /\ shakeIntensity = ShakeFor("BAD")

\* C15.  Soft gates: in every frame that plays, an unresolved active note that
\* is not past MISS_Z and fails a gate (outside the collision band, matching
\* hand not tracked, hand at 1.2 or farther, speed below 0.5, angle score not
\* above 0.1) keeps its hit, missed, hitTime and accuracy, stays in the
\* ActiveSet for the frames to come, and gets no event; and a frame marks a
\* note missed only when its depth is past MISS_Z.
C15_SoftGates ==
    ~Suspended =>
        \A time \in 0 .. MaxClock, delta \in FrameDeltas, hands \in HandSnapshots :
            \A after \in {PlayFrame(Scene, time, delta, hands)} :
                /\ \A i \in ActiveAfterSpawn(time) :
                       LET gates == SwingGates(i, time, hands)
                       IN  (/\ Unresolved(i)
                            /\ DepthAt(i, time) <= MISS_Z
                            /\ \/ ~gates.band
                               \/ ~gates.tracked
                               \/ ~gates.reach
                               \/ gates.speedSq < 25
                               \/ ~gates.direction)
                           => /\ after.notes[i] = notesState[i]
                              /\ \E k \in DOMAIN after.active : after.active[k] = i
                              /\ after.hitEvents[i] = hitEvents[i]
                              /\ after.missEvents[i] = missEvents[i]
                /\ \A i \in NoteIds :
                       (after.notes[i].missed /\ ~IsMissed(i)) => DepthAt(i, time) > MISS_Z

\* A frame has hit one note and left another, which was at the player plane
\* in that frame, unresolved in the ActiveSet and without an event.
C15_Witness ==
    /\ lastFrame = "played"
    /\ \E i, j \in NoteIds :
          /\ IsHit(j) /\ notesState[j].hitTime = currentTime
          /\ Unresolved(i) /\ InActiveSet(i)
          /\ DepthNow(i) = PLAYER_Z
          /\ hitEvents[i] = <<>> /\ missEvents[i] = 0

\* C16.  The miss check comes first: in every frame that plays, an unresolved
\* active note whose depth is beyond MISS_Z comes out missed and not hit, with
\* one more onNoteMiss and no onNoteHit, whatever the hands do (a hand at the
\* very place of the note, swinging fast along its direction, included); and
\* no note is ever hit at a depth beyond MISS_Z.
C16_MissFirst ==
    /\ \A i \in NoteIds :
           IsHit(i) => DepthAt(i, notesState[i].hitTime) <= MISS_Z
    /\ ~Suspended =>
           \A time \in 0 .. MaxClock, delta \in FrameDeltas, hands \in HandSnapshots :
               \A after \in {PlayFrame(Scene, time, delta, hands)} :
                   \A i \in ActiveAfterSpawn(time) :
                       (Unresolved(i) /\ DepthAt(i, time) > MISS_Z)
                           => /\ after.notes[i].missed /\ ~after.notes[i].hit
                              /\ after.notes[i].hitTime = NoTime
                              /\ after.missEvents[i] = missEvents[i] + 1
                              /\ after.hitEvents[i] = hitEvents[i]

\* A lane-1 note has been missed by a frame that saw it 3.0 behind the player
\* plane, where the hand Behind is.
C16_Witness ==
    /\ lastFrame = "played"
    /\ \E i \in NoteIds :
          /\ IsMissed(i) /\ ~IsHit(i)
          /\ NotePos(notesState[i], DepthNow(i)) = Behind.pos
          /\ missEvents[i] = 1 /\ hitEvents[i] = <<>>

\* C17.  Between frames the ActiveSet holds exactly the notes below the spawn
\* cursor that are neither hit nor missed, each of them once.
C17_ActiveSetExact ==
    /\ \A i \in NoteIds :
           InActiveSet(i) <=> (i <= nextNoteIndexRef /\ Unresolved(i))
    /\ \A k, l \in DOMAIN activeNotesRef :
           activeNotesRef[k] = activeNotesRef[l] => k = l

\* All three notes are below the cursor: one is hit, one is missed, and the
\* third is the whole ActiveSet.
C17_Witness ==
    /\ nextNoteIndexRef = 3
    /\ Len(activeNotesRef) = 1
    /\ \E i, j \in NoteIds : IsHit(i) /\ IsMissed(j) /\ Unresolved(activeNotesRef[1])

\* C18.  In every frame that plays, the collision loop takes up every note
\* that is in the ActiveSet after the spawn step exactly once, and no other,
\* whichever of them the frame resolves.
C18_EvaluatedOnce ==
    ~Suspended =>
        \A time \in 0 .. MaxClock, delta \in FrameDeltas, hands \in HandSnapshots :
            \A after \in {PlayFrame(Scene, time, delta, hands)} :
                \A i \in NoteIds :
                    Cardinality({k \in DOMAIN after.visits : after.visits[k] = i})
                        = IF i \in ActiveAfterSpawn(time) THEN 1 ELSE 0

\* One frame has hit two notes, with all three notes activated.
C18_Witness ==
    /\ lastFrame = "played"
    /\ nextNoteIndexRef = 3
    /\ \E i, j \in NoteIds :
          /\ i # j
          /\ IsHit(i) /\ notesState[i].hitTime = currentTime
          /\ IsHit(j) /\ notesState[j].hitTime = currentTime

---------------------------------------------------------------------------
\* C19.  The grade of a hit is the reference function of the timing error
\* |currentZ - PLAYER_Z| and the angle score: PERFECT if the error is below 0.5
\* and the score above 0.5, else GOOD if the error is below 1.0 and the score
\* above 0.2, else BAD; and a swing that passes every gate is a hit with that
\* grade, BAD when it meets neither condition, never a miss or a skip.
C19_GradeReference ==
    probe # NoProbe =>
        LET note == notesState[probe.note]
            angleScore == AngleScore(note, HandVel(note, probe.hands))
            timingError == Abs(probe.currentZ - PLAYER_Z)
            above(n) ==   \* angleScore > 1 / n
                angleScore.num > 0 /\ angleScore.num * angleScore.num * n * n > angleScore.den2
            reference ==
                IF timingError < 5 /\ above(2) THEN "PERFECT"
                ELSE IF timingError < 10 /\ above(5) THEN "GOOD"
                ELSE "BAD"
        IN  /\ probe.outcome \in HitAccuracies => probe.outcome = reference
            /\ (probe.currentZ <= MISS_Z /\ Swung(note, probe.currentZ, probe.hands))
                   => probe.outcome = reference

\* A swing at the player plane, 0.164 aligned with the required direction: past
\* the direction gate, short of both conditions, graded BAD.
C19_Witness ==
    /\ probe.outcome = "BAD"
    /\ probe.currentZ = PLAYER_Z
    /\ probe.hands = Snapshot(Shallow, Untracked)

---------------------------------------------------------------------------
\* What scoring is made of: the notes, the ActiveSet, the cursor, the events.
Scoring(sc) ==
    [notes |-> sc.notes, active |-> sc.active, next |-> sc.next,
     hitEvents |-> sc.hitEvents, missEvents |-> sc.missEvents]

\* No shake, the reset threshold of line 90, and the shakes handleHit sets.
ShakeLevels == {0, 1} \cup {ShakeFor(accuracy) : accuracy \in HitAccuracies}

\* C20.  The shake intensity does not reach the scoring: a frame that plays, at
\* whatever clock and with whatever hands, leaves the same notes, the same
\* ActiveSet and cursor and the same events whatever the shake intensity it
\* starts with.
C20_ShakeApart ==
    ~Suspended =>
        \A time \in 0 .. MaxClock, delta \in FrameDeltas, hands \in HandSnapshots :
            \A scored \in {Scoring(PlayFrame(Scene, time, delta, hands))} :
                \A shake \in ShakeLevels \ {shakeIntensity} :
                    Scoring(PlayFrame([Scene EXCEPT !.shake = shake], time, delta, hands))
                        = scored

\* The camera shakes from a PERFECT hit while an unresolved note is at the
\* player plane, within the band, for the next frame to score.
C20_Witness ==
    /\ ~Suspended
    /\ shakeIntensity = ShakeFor("PERFECT")
    /\ \E i \in NoteIds : Unresolved(i) /\ InActiveSet(i) /\ DepthNow(i) = PLAYER_Z

====
